---- MODULE Spec2Model ----
(***************************************************************************)
(* Scouting-report generation pipeline of the Basketball Analytics         *)
(* application: the ReportService of the scouting service                  *)
(* (app/services/report_service.py), the video metadata client             *)
(* (app/services/video_analysis_service.py), the report schemas            *)
(* (app/schemas/report.py), and the in-process event bus of the backend    *)
(* (app/core/events.py).                                                   *)
(*                                                                         *)
(* The store is the committed content of the reports table.  A run of      *)
(* generate_report is a coroutine: it is modelled by one action per block  *)
(* of code between two awaits, so runs interleave with each other and with *)
(* the other service calls exactly at the three awaits (metadata fetch,    *)
(* analysis, pdf rendering).                                               *)
(***************************************************************************)
EXTENDS Integers, Sequences, FiniteSets, TLC

\* ---------------------------------------------------------------- bounds
MaxJobs == 2        \* rows ever created (ids are never reused)
MaxRuns == 2        \* invocations of generate_report
MaxUpdates == 1     \* invocations of update_report
MaxPublishes == 2   \* invocations of EventBus.publish
MaxListJobs == 4    \* rows ever created when only listing is studied

JobIds == 1..MaxJobs
Runs == 1..MaxRuns

\* ---------------------------------------------------------------- values
NULL == <<>>

Statuses == {"queued", "processing", "completed", "failed"}

\* Video ids the clients submit (integers in ReportBase; named here after the
\* videos they stand for): V1 is known to the backend, V404 is not.
VideoIds == {"V1", "V404"}
KnownVideos == {"V1"}

\* What the GET /api/videos/{id} request of get_video_data can end in:
\* 200 with a data document, 200 with "data": null, or anything else
\* (non-200 answer, timeout, connection error, body without "data").
UpstreamOutcomes == {"ok", "ok_null", "error"}

\* What the pdf renderer can end in.
RenderOutcomes == {"ok", "raise"}

VARIABLES
    reports,    \* committed rows of the reports table: id -> row
    next_id,    \* next value of the id sequence
    task,       \* the generate_report coroutines: run -> frame
    now,        \* the clock read by datetime.now()
    calls,      \* history: per job, how often each pipeline step was invoked
    updates,    \* history: number of update_report calls so far
    subscribers,\* EventBus.subscribers: event type -> set of callbacks
    pub,        \* the EventBus.publish coroutine in progress
    published,  \* history: the events handed to EventBus.publish
    wrap,       \* frontend: the withErrorHandling call in progress
    ctl,        \* frontend: the scouting controller call in progress
    ret         \* history: the last store call made by id and what it returned

storeVars == <<reports, next_id, task, now, calls, updates>>
busVars == <<subscribers, pub, published>>
feVars == <<wrap, ctl>>
backVars == <<storeVars, busVars>>
vars == <<reports, next_id, task, now, calls, updates, subscribers, pub, published,
          wrap, ctl, ret>>

\* ---------------------------------------------------------------- rows
\* A variant of NewReport for a creation that has already started the run
\* when it returns: the row is first seen as processing.
NewReportStarted(title, video_id, user_id) ==
    [title |-> title, video_id |-> video_id, user_id |-> user_id,
     status |-> "processing", file_path |-> NULL, analysis_results |-> NULL,
     completed_at |-> NULL, created_at |-> <<now>>]

\* Report(..., status="queued"): the row create_report adds; file_path,
\* analysis_results and completed_at are left to their NULL defaults.
NewReport(title, video_id, user_id) ==
    [title |-> title, video_id |-> video_id, user_id |-> user_id,
     status |-> "queued", file_path |-> NULL, analysis_results |-> NULL,
     completed_at |-> NULL, created_at |-> <<now>>]

IdleFrame ==
    [pc |-> "idle", report_id |-> 0, video_id |-> "", video_data |-> NULL,
     analysis_results |-> NULL, outcome |-> "none", upstream |-> "none",
     cause |-> "none"]

NoCalls == [metadata |-> 0, analysis |-> 0, render |-> 0]

\* No publish in progress.  size is the length of the set when the for loop
\* took its iterator, snapshot the set at that moment, changed whether the set
\* has been changed since, current the callback being called, called and
\* raised the callbacks called so far and those that raised.
IdlePublish ==
    [pc |-> "idle", event_type |-> "", size |-> 0, snapshot |-> {},
     changed |-> FALSE, current |-> "", called |-> {}, raised |-> {},
     outcome |-> "none"]

\* No withErrorHandling call in progress.
IdleWrap ==
    [pc |-> "idle", options |-> << >>, settled |-> "none", error |-> << >>,
     log |-> << >>, result |-> <<"none">>]

\* No controller call in progress.
IdleCtl ==
    [pc |-> "idle", fn |-> "", onSuccess |-> "", onError |-> "",
     response |-> << >>, outcome |-> "none", log |-> << >>]

\* No store call made yet.
NoReturn == [op |-> "", id |-> 0, value |-> <<"nothing">>]

Init ==
    /\ reports = << >>
    /\ next_id = 1
    /\ task = [r \in Runs |-> IdleFrame]
    /\ now = 1
    /\ calls = [j \in JobIds |-> NoCalls]
    /\ updates = 0
    /\ subscribers = << >>
    /\ pub = IdlePublish
    /\ published = << >>
    /\ wrap = IdleWrap
    /\ ctl = IdleCtl
    /\ ret = NoReturn

\* ---------------------------------------------------------------- store
Exists(id) == id \in DOMAIN reports

\* db.add(db_report); db.commit(): the row gets the next id.
Insert(row) == (next_id :> row) @@ reports

\* A variant of Remove whose DELETE matches every row up to the id given.
RemoveUpTo(id) == [j \in {k \in DOMAIN reports : k > id} |-> reports[j]]

\* db.delete(report); db.commit()
Remove(id) == [j \in DOMAIN reports \ {id} |-> reports[j]]

\* ---------------------------------------------------------------- create_report
\* db_report = Report(...); db.add(db_report); db.commit(); db.refresh
CreateRow(title, video_id, user_id) ==
    /\ reports' = Insert(NewReport(title, video_id, user_id))
    /\ next_id' = next_id + 1
    /\ now' = now + 1
    /\ UNCHANGED <<task, calls, updates>>

create_report(title, video_id, user_id) ==
    /\ next_id <= MaxJobs
    /\ CreateRow(title, video_id, user_id)

\* create_report where only the listing is studied: more rows, no runs.
create_report_listed(title, video_id, user_id) ==
    /\ next_id <= MaxListJobs
    /\ CreateRow(title, video_id, user_id)

\* ---------------------------------------------------------------- video metadata client
\* get_video_data(video_id): the awaited GET; a non-200 answer raises inside
\* the try block, and the except branch turns every failure into the
\* "Sample Game Video" record built from the requested id.
FallbackVideo(video_id) == <<"video", video_id, "fallback">>

\* A variant of get_video_data without the except branch's return: a failed
\* request yields nothing.
get_video_data_no_fallback(video_id, upstream) ==
    IF upstream = "ok" THEN <<"video", video_id, "backend">> ELSE NULL

get_video_data(video_id, upstream) ==
    CASE upstream = "ok"      -> <<"video", video_id, "backend">>
      [] upstream = "ok_null" -> NULL
      [] OTHER                -> FallbackVideo(video_id)

\* The answers the backend can give for a video id: an unknown id never
\* yields a 200.
UpstreamFor(video_id) ==
    IF video_id \in KnownVideos THEN UpstreamOutcomes ELSE {"error"}

\* analyze_video(video_data) starts with video_data.get("id"): it raises when
\* the metadata is not a document, before its first await.
AnalysisRaises(video_data) == video_data = NULL

\* analyze_video's result: the document built from the metadata and the
\* generated team analysis.
analyze_video(video_data) == <<"analysis", video_data[2], video_data[3]>>

\* generate_pdf(report, analysis_results): location of the rendered file.
generate_pdf(report_id) == <<"pdf", report_id>>

\* ---------------------------------------------------------------- generate_report
\* A variant of ProcessingWrite for a run that starts the metadata fetch
\* before it has stored the new status.
ProcessingWriteDeferred(row) == row

\* report.status = "processing"
ProcessingWrite(row) == [row EXCEPT !.status = "processing"]

\* report.status = "completed"; report.file_path = pdf_path;
\* report.analysis_results = analysis_results;
\* report.completed_at = datetime.now()
CompletedWrite(row, pdf_path, analysis_results, t) ==
    [row EXCEPT !.status = "completed", !.file_path = pdf_path,
                !.analysis_results = analysis_results, !.completed_at = <<t>>]

\* except Exception: report.status = "failed"
FailedWrite(row) == [row EXCEPT !.status = "failed"]

\* The guard at the head of generate_report: the run goes on for every row
\* that exists, whatever its status.
RunProceeds(report_id) == Exists(report_id)

Bump(report_id, step) ==
    [calls EXCEPT ![report_id][step] = @ + 1]

\* A variant of HandlerCommit whose except branch only logs: the row is left
\* as the run found it.
HandlerCommitLogsOnly(r, cause, upstream) ==
    /\ reports' = reports
    /\ task' = [task EXCEPT ![r].pc = "done", ![r].outcome = "failed",
                            ![r].cause = cause, ![r].upstream = upstream]

\* A variant of HandlerCommit whose UPDATE is not restricted to the row of
\* the run: every row in processing is marked failed.
HandlerCommitEveryRow(r, cause, upstream) ==
    /\ reports' = [j \in DOMAIN reports |->
                      IF j = task[r].report_id \/ reports[j].status = "processing"
                      THEN FailedWrite(reports[j]) ELSE reports[j]]
    /\ task' = [task EXCEPT ![r].pc = "done",
                            ![r].outcome = IF Exists(task[r].report_id)
                                           THEN "failed" ELSE "error",
                            ![r].cause = cause, ![r].upstream = upstream]

\* A variant of HandlerCommit that saves the row with an upsert
\* (session.merge): a row that is gone is inserted again as failed.
HandlerCommitUpsert(r, cause, upstream) ==
    LET id == task[r].report_id IN
    /\ reports' = IF Exists(id)
                  THEN [reports EXCEPT ![id] = FailedWrite(@)]
                  ELSE (id :> FailedWrite(NewReport("T1", task[r].video_id, 1)))
                       @@ reports
    /\ task' = [task EXCEPT ![r].pc = "done", ![r].outcome = "failed",
                            ![r].cause = cause, ![r].upstream = upstream]

\* db.commit() of the except branch.  The UPDATE of a row that is gone
\* matches nothing and the commit raises out of generate_report.
HandlerCommit(r, cause, upstream) ==
    LET id == task[r].report_id IN
    IF Exists(id)
    THEN /\ reports' = [reports EXCEPT ![id] = FailedWrite(@)]
         /\ task' = [task EXCEPT ![r].pc = "done", ![r].outcome = "failed",
                                 ![r].cause = cause, ![r].upstream = upstream]
    ELSE /\ reports' = reports
         /\ task' = [task EXCEPT ![r].pc = "done", ![r].outcome = "error",
                                 ![r].cause = cause, ![r].upstream = upstream]

\* Entry of the coroutine up to its first await: load the row, return when
\* it is missing, else commit "processing" and start the metadata request.
generate_report(r, report_id) ==
    /\ task[r].pc = "idle"
    /\ \A q \in Runs : q < r => task[q].pc # "idle"
    /\ IF ~RunProceeds(report_id)
       THEN /\ task' = [task EXCEPT ![r].pc = "done", ![r].report_id = report_id,
                                    ![r].outcome = "not_found"]
            /\ UNCHANGED <<reports, calls>>
       ELSE /\ reports' = [reports EXCEPT ![report_id] = ProcessingWrite(@)]
            /\ task' = [task EXCEPT ![r].pc = "fetch", ![r].report_id = report_id,
                                    ![r].video_id = reports[report_id].video_id]
            /\ calls' = Bump(report_id, "metadata")
    /\ UNCHANGED <<next_id, now, updates>>

\* get_video_data returns; analyze_video is called with its result.
FetchReturns(r, upstream) ==
    LET id == task[r].report_id
        video_data == get_video_data(task[r].video_id, upstream) IN
    /\ task[r].pc = "fetch"
    /\ upstream \in UpstreamFor(task[r].video_id)
    /\ calls' = Bump(id, "analysis")
    /\ IF AnalysisRaises(video_data)
       THEN HandlerCommit(r, "analysis", upstream)
       ELSE /\ task' = [task EXCEPT ![r].pc = "analyze",
                                    ![r].upstream = upstream,
                                    ![r].video_data = video_data]
            /\ UNCHANGED reports
    /\ UNCHANGED <<next_id, now, updates>>

\* A variant of AnalysisReturns that saves the analysis document on the row as
\* soon as it is available, before the renderer has run.
AnalysisReturnsPersisting(r) ==
    /\ task[r].pc = "analyze"
    /\ task' = [task EXCEPT ![r].pc = "render",
                            ![r].analysis_results = analyze_video(task[r].video_data)]
    /\ calls' = Bump(task[r].report_id, "render")
    /\ reports' = [j \in DOMAIN reports |->
                      IF j = task[r].report_id
                      THEN [reports[j] EXCEPT !.analysis_results =
                                                 analyze_video(task[r].video_data)]
                      ELSE reports[j]]
    /\ UNCHANGED <<next_id, now, updates>>

\* asyncio.sleep returns inside analyze_video; the analysis document is
\* returned and generate_pdf is called with it.
AnalysisReturns(r) ==
    /\ task[r].pc = "analyze"
    /\ task' = [task EXCEPT ![r].pc = "render",
                            ![r].analysis_results = analyze_video(task[r].video_data)]
    /\ calls' = Bump(task[r].report_id, "render")
    /\ UNCHANGED <<reports, next_id, now, updates>>

\* generate_pdf returns or raises.  On return the four assignments are
\* committed together; the UPDATE of a row that is gone raises inside the
\* try block and is handled like a step failure.
RenderReturns(r, render) ==
    LET id == task[r].report_id IN
    /\ task[r].pc = "render"
    /\ render \in RenderOutcomes
    /\ IF render = "raise"
       THEN /\ HandlerCommit(r, "render", task[r].upstream)
            /\ now' = now
       ELSE IF Exists(id)
       THEN /\ reports' = [reports EXCEPT ![id] =
                   CompletedWrite(@, generate_pdf(id), task[r].analysis_results, now)]
            /\ task' = [task EXCEPT ![r].pc = "done", ![r].outcome = "completed"]
            /\ now' = now + 1
       ELSE /\ HandlerCommit(r, "store", task[r].upstream)
            /\ now' = now + 1
    /\ UNCHANGED <<next_id, calls, updates>>

\* ---------------------------------------------------------------- store failures
\* db.commit() can raise for reasons of the store itself (connection lost,
\* database unavailable).  A commit that raises rolls the session back: the
\* assignments pending on the row are discarded.  The commits of the try
\* block are inside it, so their failure reaches the except branch, whose own
\* commit then succeeds (handler = "ok") or raises as well
\* (handler = "raise"); the commit of the except branch is guarded by
\* nothing.
CommitOutcomes == {"ok", "raise"}

\* db.commit() of the except branch raises: nothing is written and the
\* exception leaves generate_report.
HandlerCommitRaises(r, cause, upstream) ==
    /\ reports' = reports
    /\ task' = [task EXCEPT ![r].pc = "done", ![r].outcome = "error",
                            ![r].cause = cause, ![r].upstream = upstream]

\* Entry of the coroutine when the commit of "processing" raises.
ProcessingCommitRaises(r, report_id, handler) ==
    /\ task[r].pc = "idle"
    /\ \A q \in Runs : q < r => task[q].pc # "idle"
    /\ RunProceeds(report_id)
    /\ handler \in CommitOutcomes
    /\ IF handler = "ok"
       THEN /\ reports' = [reports EXCEPT ![report_id] = FailedWrite(@)]
            /\ task' = [task EXCEPT ![r].pc = "done", ![r].report_id = report_id,
                                    ![r].outcome = "failed", ![r].cause = "store"]
       ELSE /\ reports' = reports
            /\ task' = [task EXCEPT ![r].pc = "done", ![r].report_id = report_id,
                                    ![r].outcome = "error", ![r].cause = "store"]
    /\ UNCHANGED <<next_id, now, calls, updates>>

\* analyze_video raises and the commit of the except branch raises too.
FetchReturnsCommitRaises(r, upstream) ==
    /\ task[r].pc = "fetch"
    /\ upstream \in UpstreamFor(task[r].video_id)
    /\ AnalysisRaises(get_video_data(task[r].video_id, upstream))
    /\ calls' = Bump(task[r].report_id, "analysis")
    /\ HandlerCommitRaises(r, "analysis", upstream)
    /\ UNCHANGED <<next_id, now, updates>>

\* generate_pdf raises and the commit of the except branch raises too.
RenderRaisesCommitRaises(r) ==
    /\ task[r].pc = "render"
    /\ HandlerCommitRaises(r, "render", task[r].upstream)
    /\ UNCHANGED <<next_id, now, calls, updates>>

\* generate_pdf returns and the commit of the completed row raises.
CompletedCommitRaises(r, handler) ==
    /\ task[r].pc = "render"
    /\ handler \in CommitOutcomes
    /\ IF handler = "ok"
       THEN HandlerCommit(r, "store", task[r].upstream)
       ELSE HandlerCommitRaises(r, "store", task[r].upstream)
    /\ now' = now + 1
    /\ UNCHANGED <<next_id, calls, updates>>

\* ---------------------------------------------------------------- event bus
\* class EventType(str, Enum)
EventType ==
    {"video.created", "video.updated", "video.deleted", "video.processed",
     "user.created", "user.updated", "user.deleted",
     "system.startup", "system.shutdown"}

\* The kinds, callbacks and payloads the bus is driven with.
BusEvents == {"video.created", "video.processed"}
Callbacks == {"h1", "h2", "h3"}
Payloads == {"p1"}

Subscribed(event_type) ==
    IF event_type \in DOMAIN subscribers THEN subscribers[event_type] ELSE {}

\* A subscribe or unsubscribe that changes the set a publish is iterating.
Touch(event_type) ==
    IF pub.pc = "call" /\ pub.event_type = event_type
    THEN [pub EXCEPT !.changed = TRUE]
    ELSE pub

\* subscribe(event_type, callback): callable between publishes and while a
\* callback is being called (by the callback itself or, for a coroutine
\* callback, by any other coroutine); publish does not yield anywhere else.
\* Adding a callback that is already in the set changes nothing.
subscribe(event_type, callback) ==
    /\ callback \notin Subscribed(event_type)
    /\ subscribers' = (event_type :> (Subscribed(event_type) \cup {callback}))
                          @@ subscribers
    /\ pub' = Touch(event_type)
    /\ UNCHANGED published

\* unsubscribe(event_type, callback): removes a callback that is subscribed.
unsubscribe(event_type, callback) ==
    /\ event_type \in DOMAIN subscribers
    /\ callback \in subscribers[event_type]
    /\ subscribers' = [subscribers EXCEPT ![event_type] = @ \ {callback}]
    /\ pub' = Touch(event_type)
    /\ UNCHANGED published

\* The head of the for loop over self.subscribers[event_type] (FOR_ITER),
\* outside the try block: the set iterator raises RuntimeError when the set
\* has changed its size since the loop began; else the next callback is one
\* not yet called (the order of a set is not specified), or the loop ends
\* and publish returns.
ForIter(frame, callback) ==
    LET rest == Subscribed(frame.event_type) \ frame.called IN
    IF Cardinality(Subscribed(frame.event_type)) # frame.size
    THEN [frame EXCEPT !.pc = "done", !.outcome = "error", !.current = ""]
    ELSE IF callback \in rest
    THEN [frame EXCEPT !.pc = "call", !.current = callback,
                       !.called = @ \cup {callback}]
    ELSE [frame EXCEPT !.pc = "done", !.outcome = "returned", !.current = ""]

\* The callbacks the loop can take next: any one not yet called, "" if none.
NextCallbacks(frame) ==
    LET rest == Subscribed(frame.event_type) \ frame.called IN
    IF rest = {} THEN {""} ELSE rest

\* publish(event_type, data) up to the call of the first callback.
publish(event_type, data) ==
    /\ pub.pc \in {"idle", "done"}
    /\ Len(published) < MaxPublishes
    /\ published' = Append(published, [event_type |-> event_type, data |-> data])
    /\ IF event_type \notin DOMAIN subscribers
       THEN pub' = [IdlePublish EXCEPT !.pc = "done", !.event_type = event_type,
                                       !.outcome = "returned"]
       ELSE \E c \in NextCallbacks([IdlePublish EXCEPT !.event_type = event_type]) :
                pub' = ForIter([IdlePublish EXCEPT
                                   !.event_type = event_type,
                                   !.size = Cardinality(subscribers[event_type]),
                                   !.snapshot = subscribers[event_type]], c)
    /\ UNCHANGED subscribers

\* The callback being called returns; the loop goes on.
CallbackReturns ==
    /\ pub.pc = "call"
    /\ \E c \in NextCallbacks(pub) : pub' = ForIter(pub, c)
    /\ UNCHANGED <<subscribers, published>>

\* A variant of CallbackRaises with the try block around the whole loop: the
\* exception of a callback ends the loop.
CallbackRaisesEndsLoop ==
    /\ pub.pc = "call"
    /\ pub' = [pub EXCEPT !.pc = "done", !.outcome = "returned", !.current = "",
                          !.raised = @ \cup {pub.current}]
    /\ UNCHANGED <<subscribers, published>>

\* The callback being called raises: except Exception inside the loop logs
\* the error, and the loop goes on.
CallbackRaises ==
    /\ pub.pc = "call"
    /\ \E c \in NextCallbacks(pub) :
          pub' = ForIter([pub EXCEPT !.raised = @ \cup {pub.current}], c)
    /\ UNCHANGED <<subscribers, published>>

\* ---------------------------------------------------------------- update_report
\* ReportUpdate: every field is optional; the fields of the rows kept here.
UpdateValues ==
    {<<"title", "T2">>, <<"file_path", NULL>>, <<"file_path", <<"pdf", 0>>>>,
     <<"analysis_results", NULL>>, <<"completed_at", NULL>>}
    \cup {<<"status", s>> : s \in Statuses \cup {"archived"}}

\* report_in.dict(exclude_unset=True): the fields the caller has set.
UpdateInputs == {<< >>} \cup {<<p>> : p \in UpdateValues}

\* for field, value in update_data.items(): setattr(report, field, value)
RECURSIVE SetAttrs(_, _)
SetAttrs(row, update_data) ==
    IF update_data = << >> THEN row
    ELSE SetAttrs([row EXCEPT ![Head(update_data)[1]] = Head(update_data)[2]],
                  Tail(update_data))

update_report(report_id, report_in) ==
    /\ updates < MaxUpdates
    /\ Exists(report_id)
    /\ reports' = [reports EXCEPT ![report_id] = SetAttrs(@, report_in)]
    /\ updates' = updates + 1
    /\ UNCHANGED <<next_id, task, now, calls>>

\* ---------------------------------------------------------------- delete_report
delete_report(report_id) ==
    /\ Exists(report_id)
    /\ reports' = Remove(report_id)
    /\ UNCHANGED <<next_id, task, now, calls, updates>>

\* ---------------------------------------------------------------- reads
\* get_report_file_path: None when the row is missing or has no file_path.
get_report_file_path(report_id) ==
    IF Exists(report_id) /\ reports[report_id].file_path # NULL
    THEN reports[report_id].file_path
    ELSE NULL

\* get_report: the row as a reader's own session sees it, None when missing.
get_report(report_id) ==
    IF Exists(report_id) THEN <<reports[report_id]>> ELSE NULL

\* The dict get_report builds from the row: analysis_results is copied from
\* the row as it is, download_url is built only for a completed row.
ReportDict(id, row) ==
    [id |-> id, title |-> row.title, video_id |-> row.video_id,
     user_id |-> row.user_id, status |-> row.status,
     created_at |-> row.created_at, completed_at |-> row.completed_at,
     analysis_results |-> row.analysis_results,
     download_url |-> IF row.status = "completed" THEN <<"download", id>> ELSE NULL]

\* The dict get_reports builds for each row: no analysis_results key.
ListItem(id, row) ==
    [id |-> id, title |-> row.title, video_id |-> row.video_id,
     user_id |-> row.user_id, status |-> row.status,
     created_at |-> row.created_at, completed_at |-> row.completed_at,
     download_url |-> IF row.status = "completed" THEN <<"download", id>> ELSE NULL]

\* A variant of OrderByCreatedDesc that sorts oldest row first.
RECURSIVE OrderByCreatedAsc(_)
OrderByCreatedAsc(ids) ==
    IF ids = {} THEN << >>
    ELSE LET oldest == CHOOSE i \in ids :
                 \A k \in ids : reports[i].created_at[1] <= reports[k].created_at[1]
         IN <<oldest>> \o OrderByCreatedAsc(ids \ {oldest})

\* query.order_by(Report.created_at.desc()): the ids, newest row first.
RECURSIVE OrderByCreatedDesc(_)
OrderByCreatedDesc(ids) ==
    IF ids = {} THEN << >>
    ELSE LET newest == CHOOSE i \in ids :
                 \A k \in ids : reports[k].created_at[1] <= reports[i].created_at[1]
         IN <<newest>> \o OrderByCreatedDesc(ids \ {newest})

\* .offset(skip)
Offset(s, skip) == SubSeq(s, skip + 1, Len(s))

\* .limit(limit)
Limit(s, limit) == SubSeq(s, 1, IF limit < Len(s) THEN limit ELSE Len(s))

\* get_reports(db, user_id, skip, limit); user_id is NULL (None) or <<u>>.
get_reports(user_id, skip, limit) ==
    LET query == IF user_id # NULL
                 THEN {j \in DOMAIN reports : reports[j].user_id = user_id[1]}
                 ELSE DOMAIN reports
        ids == Limit(Offset(OrderByCreatedDesc(query), skip), limit)
    IN [i \in 1..Len(ids) |-> ListItem(ids[i], reports[ids[i]])]

\* ---------------------------------------------------------------- calls by id
\* What each function of ReportService returns to its caller, for an id
\* that is stored or not.
ReturnNone == <<"None">>

get_report_returns(report_id) ==
    IF get_report(report_id) = NULL THEN ReturnNone
    ELSE <<"report", ReportDict(report_id, get_report(report_id)[1])>>

\* A variant of update_report_returns for a service that answers an unknown
\* id with an empty report instead of None.
update_report_returns_empty(report_id, report_in) ==
    <<"report", IF Exists(report_id) THEN SetAttrs(reports[report_id], report_in)
                ELSE << >>>>

update_report_returns(report_id, report_in) ==
    IF Exists(report_id)
    THEN <<"report", SetAttrs(reports[report_id], report_in)>>
    ELSE ReturnNone

delete_report_returns(report_id) ==
    IF Exists(report_id) THEN <<"True">> ELSE <<"False">>

get_report_file_path_returns(report_id) ==
    IF get_report_file_path(report_id) = NULL THEN ReturnNone
    ELSE <<"path", "file", get_report_file_path(report_id)>>

\* The four calls as their caller sees them: the value returned and the
\* change made to the table, if any.
get_report_call(report_id) ==
    /\ ret' = [op |-> "get_report", id |-> report_id,
               value |-> get_report_returns(report_id)]
    /\ UNCHANGED storeVars

get_report_file_path_call(report_id) ==
    /\ ret' = [op |-> "get_report_file_path", id |-> report_id,
               value |-> get_report_file_path_returns(report_id)]
    /\ UNCHANGED storeVars

update_report_call(report_id, report_in) ==
    /\ ret' = [op |-> "update_report", id |-> report_id,
               value |-> update_report_returns(report_id, report_in)]
    /\ IF Exists(report_id) THEN update_report(report_id, report_in)
       ELSE UNCHANGED storeVars

delete_report_call(report_id) ==
    /\ ret' = [op |-> "delete_report", id |-> report_id,
               value |-> delete_report_returns(report_id)]
    /\ IF Exists(report_id) THEN delete_report(report_id)
       ELSE UNCHANGED storeVars

\* ---------------------------------------------------------------- frontend: errorHandler.js
\* The errors an apiCall rejects with.  response is << >> (absent) or
\* <<[status, data]>>, data is << >> or <<[message, detail, errors]>>; an
\* absent or empty string is "", as both are falsy in JavaScript.
NoFields == [message |-> "", detail |-> "", errors |-> << >>]

HttpError(status, data, message) ==
    [response |-> <<[status |-> status, data |-> data]>>, request |-> TRUE,
     message |-> message]

Errors ==
    {HttpError(401, << >>, "Request failed with status code 401"),
     HttpError(401, <<[NoFields EXCEPT !.message = "Token expired"]>>, "Request failed with status code 401"),
     HttpError(403, << >>, "Request failed with status code 403"),
     HttpError(404, <<[NoFields EXCEPT !.detail = "Report not found"]>>, "Request failed with status code 404"),
     HttpError(422, <<[NoFields EXCEPT !.errors = <<"title is required">>]>>, "Request failed with status code 422"),
     HttpError(422, <<[NoFields EXCEPT !.errors = <<"">>]>>, "Request failed with status code 422"),
     HttpError(422, <<NoFields>>, "Request failed with status code 422"),
     HttpError(500, << >>, "Request failed with status code 500"),
     HttpError(400, << >>, "Request failed with status code 400"),
     HttpError(400, << >>, ""),
     [response |-> << >>, request |-> TRUE, message |-> "Network Error"],
     [response |-> << >>, request |-> FALSE, message |-> "Unexpected token"],
     [response |-> << >>, request |-> FALSE, message |-> ""]}

\* The exception of a callback that throws.
CallbackError(name) ==
    [response |-> << >>, request |-> FALSE, message |-> name]

DefaultErrorMsg == "An error occurred"

\* The message for the HTTP status alone, "" when the status has none.
StatusMessage(status) ==
    CASE status = 401 -> "Authentication required. Please log in."
      [] status = 403 -> "You do not have permission to perform this action."
      [] status = 404 -> "The requested resource was not found."
      [] status = 422 -> "The request contains invalid data."
      [] status >= 500 -> "Server error. Please try again later."
      [] OTHER -> ""

\* The message found in the body of the response, "" when there is none.
DataMessage(data) ==
    IF data = << >> THEN ""
    ELSE IF data[1].message # "" THEN data[1].message
    ELSE IF data[1].detail # "" THEN data[1].detail
    ELSE IF Len(data[1].errors) > 0
    THEN (IF data[1].errors[1] # "" THEN data[1].errors[1] ELSE "Validation error")
    ELSE ""

\* getErrorMessage(error, defaultMsg) for an error object.
getErrorMessage(error, defaultMsg) ==
    LET fromResponse ==
            IF error.response = << >> THEN ""
            ELSE IF DataMessage(error.response[1].data) # ""
            THEN DataMessage(error.response[1].data)
            ELSE StatusMessage(error.response[1].status)
    IN IF fromResponse # "" THEN fromResponse
       ELSE IF error.request /\ error.response = << >>
       THEN "Network error. Please check your connection."
       ELSE IF error.message # "" THEN error.message
       ELSE defaultMsg

\* A variant of handleAuthError that takes every authentication or
\* authorization error (isAuthError) for an expired session.
handleAuthErrorForbiddenToo(error) ==
    error.response # << >> /\ error.response[1].status \in {401, 403}

\* handleAuthError(error, navigate): TRUE when the error is a 401 response;
\* it then removes the stored user and navigates to /login.
handleAuthError(error) ==
    error.response # << >> /\ error.response[1].status = 401

\* ---------------------------------------------------------------- frontend: apiWrapper.js
\* How a callback behaves when called; "absent" when it is not supplied.
CallbackKinds == {"absent", "returns", "throws"}

\* The options of a withErrorHandling call (debug only logs to the console).
WrapOptions ==
    [onSuccess : CallbackKinds, onError : CallbackKinds, showError : CallbackKinds,
     showErrorToast : BOOLEAN, navigate : BOOLEAN]

\* The catch block of withErrorHandling, entered with error after the calls
\* in log: the frame the call ends in.
CatchBlock(frame, error, log) ==
    LET o == frame.options
        errorMessage == getErrorMessage(error, DefaultErrorMsg)
        shown == o.showErrorToast /\ o.showError # "absent"
        log1 == IF shown THEN Append(log, <<"showError", errorMessage>>) ELSE log
        log2 == IF o.onError # "absent"
                THEN Append(log1, <<"onError", error, errorMessage>>) ELSE log1
    IN IF o.navigate /\ handleAuthError(error)
       THEN [frame EXCEPT !.pc = "done", !.log = Append(log, <<"navigate", "/login">>),
                          !.result = <<"returned", "null">>]
       ELSE IF shown /\ o.showError = "throws"
       THEN [frame EXCEPT !.pc = "done", !.log = log1,
                          !.result = <<"thrown", CallbackError("showError")>>]
       ELSE IF o.onError = "throws"
       THEN [frame EXCEPT !.pc = "done", !.log = log2,
                          !.result = <<"thrown", CallbackError("onError")>>]
       ELSE [frame EXCEPT !.pc = "done", !.log = log2,
                          !.result = <<"thrown", error>>]

\* withErrorHandling(apiCall, options) up to `await apiCall()`.
withErrorHandling(options) ==
    /\ wrap.pc \in {"idle", "done"}
    /\ wrap' = [IdleWrap EXCEPT !.pc = "await", !.options = options]
    /\ UNCHANGED ctl

\* apiCall resolves: onSuccess is called inside the try block, so its
\* exception reaches the catch block.
ApiCallResolves ==
    /\ wrap.pc = "await"
    /\ LET frame == [wrap EXCEPT !.settled = "resolved"] IN
       wrap' = IF wrap.options.onSuccess = "absent"
               THEN [frame EXCEPT !.pc = "done", !.result = <<"returned", "response">>]
               ELSE IF wrap.options.onSuccess = "returns"
               THEN [frame EXCEPT !.pc = "done", !.log = <<<<"onSuccess", "response">>>>,
                                  !.result = <<"returned", "response">>]
               ELSE CatchBlock(frame, CallbackError("onSuccess"),
                               <<<<"onSuccess", "response">>>>)
    /\ UNCHANGED ctl

\* apiCall rejects with error.
ApiCallRejects(error) ==
    /\ wrap.pc = "await"
    /\ wrap' = CatchBlock([wrap EXCEPT !.settled = "rejected", !.error = <<error>>],
                          error, << >>)
    /\ UNCHANGED ctl

\* ---------------------------------------------------------------- frontend: scoutingController.js
\* The four functions of the controller and the message each falls back to.
Controllers == {"getReports", "getReportById", "createReport", "deleteReport"}

FailedMessage(fn) ==
    CASE fn = "getReports"    -> "Failed to fetch reports"
      [] fn = "getReportById" -> "Failed to fetch report"
      [] fn = "createReport"  -> "Failed to create report"
      [] fn = "deleteReport"  -> "Failed to delete report"

\* The bodies a response can carry: text that is not JSON, the JSON null,
\* or an object with the keys status, data and message (an absent or falsy
\* data is << >>, an absent or empty message is "").
Bodies ==
    {[kind |-> k, status |-> "", data |-> << >>, message |-> ""] :
        k \in {"invalid", "null"}}
    \cup [kind : {"object"}, status : {"success", "error"},
          data : {<< >>, <<"payload">>}, message : {"", "Report not found"}]

Responses == [ok : BOOLEAN, body : Bodies]

\* How the callbacks handed to the controller behave when called.
HandlerKinds == {"returns", "throws"}

\* data.message || 'Failed to ...'
MessageOr(data, fn) ==
    IF data.message # "" THEN data.message ELSE FailedMessage(fn)

\* The condition under which the function calls onSuccess, and with what.
IsSuccess(fn, data) ==
    IF fn \in {"getReports", "getReportById"}
    THEN data.status = "success" /\ data.data # << >>
    ELSE data.status = "success"

SuccessArgs(fn, data) ==
    IF fn = "deleteReport" THEN <<"onSuccess">> ELSE <<"onSuccess", data.data>>

\* catch (error) { console.error(...); onError(error.message) }, entered
\* after the calls in log: an exception of onError rejects the promise of
\* the function.
CtlCatch(frame, message, log) ==
    [frame EXCEPT !.pc = "done", !.log = Append(log, <<"onError", message>>),
                  !.outcome = IF frame.onError = "throws"
                              THEN "rejected" ELSE "resolved"]

\* The try block after `await response.json()` has yielded data.
CtlBody(frame, ok, data) ==
    IF data.kind = "null" THEN CtlCatch(frame, "TypeError", << >>)
    ELSE IF ~ok THEN CtlCatch(frame, MessageOr(data, frame.fn), << >>)
    ELSE IF IsSuccess(frame.fn, data)
    THEN (IF frame.onSuccess = "throws"
          THEN CtlCatch(frame, "onSuccess", <<SuccessArgs(frame.fn, data)>>)
          ELSE [frame EXCEPT !.pc = "done", !.outcome = "resolved",
                             !.log = <<SuccessArgs(frame.fn, data)>>])
    ELSE (IF frame.onError = "throws"
          THEN CtlCatch(frame, "onError",
                        <<<<"onError", MessageOr(data, frame.fn)>>>>)
          ELSE [frame EXCEPT !.pc = "done", !.outcome = "resolved",
                             !.log = <<<<"onError", MessageOr(data, frame.fn)>>>>])

\* One of the four functions is called, up to `await fetchWithAuth(...)`.
CallController(fn, onSuccess, onError) ==
    /\ ctl.pc \in {"idle", "done"}
    /\ ctl' = [IdleCtl EXCEPT !.pc = "fetch", !.fn = fn,
                              !.onSuccess = onSuccess, !.onError = onError]
    /\ UNCHANGED wrap

\* fetch rejects (network failure).
FetchRejects ==
    /\ ctl.pc = "fetch"
    /\ ctl' = CtlCatch(ctl, "Failed to fetch", << >>)
    /\ UNCHANGED wrap

\* fetch resolves with a response, up to `await response.json()`.
FetchResolves(response) ==
    /\ ctl.pc = "fetch"
    /\ ctl' = [ctl EXCEPT !.pc = "json", !.response = <<response>>]
    /\ UNCHANGED wrap

\* response.json() settles: it rejects for a body that is not JSON, else the
\* rest of the try block runs on the parsed body.
JsonSettles ==
    /\ ctl.pc = "json"
    /\ LET response == ctl.response[1] IN
       ctl' = IF response.body.kind = "invalid"
              THEN CtlCatch(ctl, "Unexpected token", << >>)
              ELSE CtlBody(ctl, response.ok, response.body)
    /\ UNCHANGED wrap

\* ---------------------------------------------------------------- specification
Titles == {"T1"}
Users == {1}

Next ==
    \/ (\E t \in Titles, v \in VideoIds, u \in Users : create_report(t, v, u)) /\ UNCHANGED <<busVars, feVars, ret>>
    \/ (\E r \in Runs, j \in JobIds : generate_report(r, j)) /\ UNCHANGED <<busVars, feVars, ret>>
    \/ (\E r \in Runs, u \in UpstreamOutcomes : FetchReturns(r, u)) /\ UNCHANGED <<busVars, feVars, ret>>
    \/ (\E r \in Runs : AnalysisReturns(r)) /\ UNCHANGED <<busVars, feVars, ret>>
    \/ (\E r \in Runs, o \in RenderOutcomes : RenderReturns(r, o)) /\ UNCHANGED <<busVars, feVars, ret>>
    \/ (\E j \in JobIds, d \in UpdateInputs : update_report(j, d)) /\ UNCHANGED <<busVars, feVars, ret>>
    \/ (\E j \in JobIds : delete_report(j)) /\ UNCHANGED <<busVars, feVars, ret>>

Spec == Init /\ [][Next]_vars

\* The pipeline alone: the calls the routes make (create, the scheduled run
\* and its re-deliveries, delete), without update_report, which no route calls.
PipelineNext ==
    \/ (\E t \in Titles, v \in VideoIds, u \in Users : create_report(t, v, u)) /\ UNCHANGED <<busVars, feVars, ret>>
    \/ (\E r \in Runs, j \in JobIds : generate_report(r, j)) /\ UNCHANGED <<busVars, feVars, ret>>
    \/ (\E r \in Runs, u \in UpstreamOutcomes : FetchReturns(r, u)) /\ UNCHANGED <<busVars, feVars, ret>>
    \/ (\E r \in Runs : AnalysisReturns(r)) /\ UNCHANGED <<busVars, feVars, ret>>
    \/ (\E r \in Runs, o \in RenderOutcomes : RenderReturns(r, o)) /\ UNCHANGED <<busVars, feVars, ret>>
    \/ (\E j \in JobIds : delete_report(j)) /\ UNCHANGED <<busVars, feVars, ret>>

PipelineSpec == Init /\ [][PipelineNext]_vars

\* The scouting controller on its own.
CtlNext ==
    \/ (\E fn \in Controllers, s \in HandlerKinds, e \in HandlerKinds :
            CallController(fn, s, e)) /\ UNCHANGED <<backVars, ret>>
    \/ FetchRejects /\ UNCHANGED <<backVars, ret>>
    \/ (\E response \in Responses : FetchResolves(response)) /\ UNCHANGED <<backVars, ret>>
    \/ JsonSettles /\ UNCHANGED <<backVars, ret>>

CtlSpec == Init /\ [][CtlNext]_vars

\* The calls by id, on stored and on unknown ids, next to creation and the
\* runs.
CallNext ==
    \/ (\E t \in Titles, v \in VideoIds, u \in Users : create_report(t, v, u)) /\ UNCHANGED <<busVars, feVars, ret>>
    \/ (\E r \in Runs, j \in JobIds : generate_report(r, j)) /\ UNCHANGED <<busVars, feVars, ret>>
    \/ (\E j \in JobIds : get_report_call(j)) /\ UNCHANGED <<busVars, feVars>>
    \/ (\E j \in JobIds : get_report_file_path_call(j)) /\ UNCHANGED <<busVars, feVars>>
    \/ (\E j \in JobIds, d \in UpdateInputs : update_report_call(j, d)) /\ UNCHANGED <<busVars, feVars>>
    \/ (\E j \in JobIds : delete_report_call(j)) /\ UNCHANGED <<busVars, feVars>>

CallSpec == Init /\ [][CallNext]_vars

\* Creation, deletion and listing on their own, with two owners.
ListUsers == {1, 2}

ListNext ==
    \/ (\E t \in Titles, v \in VideoIds, u \in ListUsers :
            create_report_listed(t, v, u)) /\ UNCHANGED <<busVars, feVars, ret>>
    \/ (\E j \in 1..MaxListJobs : delete_report(j)) /\ UNCHANGED <<busVars, feVars, ret>>

ListSpec == Init /\ [][ListNext]_vars

\* The API wrapper of the frontend on its own.
WrapNext ==
    \/ (\E o \in WrapOptions : withErrorHandling(o)) /\ UNCHANGED <<backVars, ret>>
    \/ ApiCallResolves /\ UNCHANGED <<backVars, ret>>
    \/ (\E e \in Errors : ApiCallRejects(e)) /\ UNCHANGED <<backVars, ret>>

WrapSpec == Init /\ [][WrapNext]_vars

\* The event bus of the backend on its own.
BusNext ==
    \/ (\E e \in BusEvents, c \in Callbacks : subscribe(e, c)) /\ UNCHANGED <<storeVars, feVars, ret>>
    \/ (\E e \in BusEvents, c \in Callbacks : unsubscribe(e, c)) /\ UNCHANGED <<storeVars, feVars, ret>>
    \/ (\E e \in BusEvents, d \in Payloads : publish(e, d)) /\ UNCHANGED <<storeVars, feVars, ret>>
    \/ CallbackReturns /\ UNCHANGED <<storeVars, feVars, ret>>
    \/ CallbackRaises /\ UNCHANGED <<storeVars, feVars, ret>>

BusSpec == Init /\ [][BusNext]_vars

\* The pipeline over a store whose commits can fail.
FaultNext ==
    \/ (\E t \in Titles, v \in VideoIds, u \in Users : create_report(t, v, u)) /\ UNCHANGED <<busVars, feVars, ret>>
    \/ (\E r \in Runs, j \in JobIds : generate_report(r, j)) /\ UNCHANGED <<busVars, feVars, ret>>
    \/ (\E r \in Runs, u \in UpstreamOutcomes : FetchReturns(r, u)) /\ UNCHANGED <<busVars, feVars, ret>>
    \/ (\E r \in Runs : AnalysisReturns(r)) /\ UNCHANGED <<busVars, feVars, ret>>
    \/ (\E r \in Runs, o \in RenderOutcomes : RenderReturns(r, o)) /\ UNCHANGED <<busVars, feVars, ret>>
    \/ (\E j \in JobIds : delete_report(j)) /\ UNCHANGED <<busVars, feVars, ret>>
    \/ (\E r \in Runs, j \in JobIds, h \in CommitOutcomes :
            ProcessingCommitRaises(r, j, h)) /\ UNCHANGED <<busVars, feVars, ret>>
    \/ (\E r \in Runs, u \in UpstreamOutcomes : FetchReturnsCommitRaises(r, u)) /\ UNCHANGED <<busVars, feVars, ret>>
    \/ (\E r \in Runs : RenderRaisesCommitRaises(r)) /\ UNCHANGED <<busVars, feVars, ret>>
    \/ (\E r \in Runs, h \in CommitOutcomes : CompletedCommitRaises(r, h)) /\ UNCHANGED <<busVars, feVars, ret>>

\* The event loop resumes a coroutine whose awaited call has returned or
\* raised: the step that follows the await of run r.
Resume(r) ==
    \/ (\E u \in UpstreamOutcomes : FetchReturns(r, u)) /\ UNCHANGED <<busVars, feVars, ret>>
    \/ AnalysisReturns(r) /\ UNCHANGED <<busVars, feVars, ret>>
    \/ (\E o \in RenderOutcomes : RenderReturns(r, o)) /\ UNCHANGED <<busVars, feVars, ret>>
    \/ (\E u \in UpstreamOutcomes : FetchReturnsCommitRaises(r, u)) /\ UNCHANGED <<busVars, feVars, ret>>
    \/ RenderRaisesCommitRaises(r) /\ UNCHANGED <<busVars, feVars, ret>>
    \/ (\E h \in CommitOutcomes : CompletedCommitRaises(r, h)) /\ UNCHANGED <<busVars, feVars, ret>>

FaultSpec ==
    Init /\ [][FaultNext]_vars /\ \A r \in Runs : WF_vars(Resume(r))

\* ---------------------------------------------------------------- helpers of the properties
Kept == DOMAIN reports \cap DOMAIN reports'

Active(r) == task[r].pc \in {"fetch", "analyze", "render"}

\* The run r enters generate_report in this step.
Enters(r) == task[r].pc = "idle" /\ task'[r].pc # "idle"

\* The run r leaves generate_report in this step.
Ends(r) == Active(r) /\ task'[r].pc = "done"

Transitions ==
    {<<"queued", "processing">>, <<"processing", "completed">>,
     <<"processing", "failed">>}

\* ---------------------------------------------------------------- claims

\* C1: every job's status is one of queued, processing, completed, failed,
\* and every change of a status is queued->processing,
\* processing->completed or processing->failed (so no status becomes
\* queued again once a run has started).
C1_StatusMachine ==
    [][\A j \in Kept :
          /\ reports[j].status \in Statuses
          /\ reports'[j].status \in Statuses
          /\ \/ reports'[j].status = reports[j].status
             \/ <<reports[j].status, reports'[j].status>> \in Transitions]_vars

\* C2: a job is completed if and only if file_path, analysis_results and
\* completed_at are all set.
C2_CompletedIffResults ==
    \A j \in DOMAIN reports :
        reports[j].status = "completed"
            <=> /\ reports[j].file_path # NULL
                /\ reports[j].analysis_results # NULL
                /\ reports[j].completed_at # NULL

\* C3: a failed job has no file_path and no analysis_results, and has its
\* completed_at set.
C3_FailedShape ==
    \A j \in DOMAIN reports :
        reports[j].status = "failed"
            => /\ reports[j].file_path = NULL
               /\ reports[j].analysis_results = NULL
               /\ reports[j].completed_at # NULL

\* C4: generate_report entered on a stored job whose status is not queued
\* invokes no pipeline step and leaves the whole store unchanged.
C4_ReentryIsNoOp ==
    [][\A r \in Runs :
          (/\ Enters(r)
           /\ task'[r].report_id \in DOMAIN reports
           /\ reports[task'[r].report_id].status # "queued")
          => /\ reports' = reports
             /\ calls' = calls
             /\ task'[r].pc = "done"]_vars

\* C5: two runs of the same job are never active together and the artifact
\* of a job is rendered at most once.
C5_OneExecution ==
    /\ \A r1, r2 \in Runs :
          (r1 # r2 /\ Active(r1) /\ Active(r2))
              => task[r1].report_id # task[r2].report_id
    /\ \A j \in JobIds : calls[j].render <= 1

\* C6: a run whose metadata fetch failed upstream goes on to neither the
\* analysis nor the render step, and ends with the job failed, completed_at
\* set and no artifact.
C6_FetchFailureIsFatal ==
    \A r \in Runs :
        task[r].upstream = "error"
            => /\ task[r].pc \notin {"analyze", "render"}
               /\ task[r].analysis_results = NULL
               /\ (task[r].pc = "done" /\ task[r].report_id \in DOMAIN reports)
                     => /\ task[r].outcome = "failed"
                        /\ reports[task[r].report_id].status = "failed"
                        /\ reports[task[r].report_id].completed_at # NULL
                        /\ reports[task[r].report_id].file_path = NULL

\* C7: when the analysis or the render step raises, the run ends with the
\* job failed and has saved neither file_path nor analysis_results, also
\* when the analysis had succeeded before the renderer raised: the failing
\* run leaves both fields as they were, and they are written only by a run
\* that completes (or by update_report).
C7_NoPartialResult ==
    [][/\ \A r \in Runs :
             (/\ Ends(r)
              /\ task'[r].cause \in {"analysis", "render"}
              /\ task[r].report_id \in Kept)
             => /\ reports'[task[r].report_id].status = "failed"
                /\ reports'[task[r].report_id].file_path
                      = reports[task[r].report_id].file_path
                /\ reports'[task[r].report_id].analysis_results
                      = reports[task[r].report_id].analysis_results
       /\ \A j \in Kept :
             (\/ reports'[j].file_path # reports[j].file_path
              \/ reports'[j].analysis_results # reports[j].analysis_results)
             => \/ updates' # updates
                \/ \E r \in Runs : /\ Ends(r)
                                   /\ task[r].report_id = j
                                   /\ task'[r].outcome = "completed"]_vars

\* A run whose renderer raised after a successful analysis has ended, and the
\* job is failed with neither field set.
C7_Witness ==
    \E r \in Runs :
        /\ task[r].pc = "done"
        /\ task[r].outcome = "failed"
        /\ task[r].cause = "render"
        /\ task[r].analysis_results # NULL
        /\ task[r].report_id \in DOMAIN reports
        /\ reports[task[r].report_id].status = "failed"
        /\ reports[task[r].report_id].file_path = NULL
        /\ reports[task[r].report_id].analysis_results = NULL

\* C8: what a reader gets from get_report is never a completed job without
\* file_path or without analysis_results, and never a job that is not
\* completed but has a file_path.
C8_AtomicCompletion ==
    \A j \in JobIds :
        get_report(j) # NULL
            => LET view == get_report(j)[1] IN
               /\ view.status = "completed"
                     => view.file_path # NULL /\ view.analysis_results # NULL
               /\ view.status # "completed" => view.file_path = NULL

\* C9: once a job is completed or failed, no step that keeps the row changes
\* any of its fields.
C9_TerminalImmutable ==
    [][\A j \in Kept :
          reports[j].status \in {"completed", "failed"}
              => reports'[j] = reports[j]]_vars

\* C10: the download lookup yields a location for exactly the completed jobs.
C10_DownloadIffCompleted ==
    \A j \in JobIds :
        get_report_file_path(j) # NULL
            <=> (j \in DOMAIN reports /\ reports[j].status = "completed")

\* C11: every job view get_report or get_reports returns has a non-null
\* analysis document or a non-null download_url only when the job's status
\* is completed.
C11_ResultsOnlyWhenCompleted ==
    /\ \A j \in JobIds :
          get_report(j) # NULL
              => LET view == ReportDict(j, get_report(j)[1]) IN
                 (view.analysis_results # NULL \/ view.download_url # NULL)
                     => view.status = "completed"
    /\ LET listed == get_reports(NULL, 0, MaxJobs) IN
       \A i \in 1..Len(listed) :
           listed[i].download_url # NULL => listed[i].status = "completed"

\* C12: the step that creates a job stores it with status queued and with
\* file_path, analysis_results and completed_at null, and starts nothing: in
\* the state create_report returns in, no run is working on the job and no
\* pipeline step has been invoked for it, so the job is seen as queued
\* before it can be seen as processing.
C12_CreatedQueuedNotStarted ==
    [][\A j \in DOMAIN reports' \ DOMAIN reports :
          /\ reports'[j].status = "queued"
          /\ reports'[j].file_path = NULL
          /\ reports'[j].analysis_results = NULL
          /\ reports'[j].completed_at = NULL
          /\ task' = task
          /\ \A r \in Runs : ~(Active(r) /\ task[r].report_id = j)
          /\ j \in JobIds => calls'[j] = NoCalls]_vars

\* A job has been created and is still queued: no run has been started on it.
C12_Witness ==
    \E j \in DOMAIN reports :
        /\ reports[j].status = "queued"
        /\ reports[j].file_path = NULL
        /\ reports[j].analysis_results = NULL
        /\ reports[j].completed_at = NULL
        /\ calls[j] = NoCalls
        /\ \A r \in Runs : task[r].pc = "idle"

\* A run is working on the stored job j, which it has moved to processing.
InProcessing(j) ==
    /\ j \in DOMAIN reports
    /\ reports[j].status = "processing"
    /\ \E r \in Runs : Active(r) /\ task[r].report_id = j

\* The job j is completed or failed (or is no job any more).
Settled(j) ==
    j \in DOMAIN reports => reports[j].status \in {"completed", "failed"}

\* A run on the job j has ended by the exception of a commit.
CommitEscaped(j) ==
    \E r \in Runs :
        task[r].pc = "done" /\ task[r].report_id = j /\ task[r].outcome = "error"

C14_TransitionPublished ==
    [][\A j \in Kept :
          reports'[j].status # reports[j].status
              => \E k \in EventType :
                    published' = Append(published,
                        [event_type |-> k, data |-> <<j, reports'[j].status>>])]_vars

\* C15: in publish, the exception of a callback is caught inside the loop.
\* In the step in which a callback raises, the loop goes on as after a
\* return: it calls one of the callbacks of that kind not yet called, or
\* publish returns when there is none.  A publish during which the set of
\* callbacks of the kind is not changed returns normally after having called
\* every one of them, whichever of them raised; the only exception that can
\* leave publish is the one of the set iterator when the set was changed
\* during the publish.
C15_CallbackErrorIsolated ==
    /\ [][(/\ pub.pc = "call"
            /\ pub'.raised # pub.raised
            /\ Cardinality(Subscribed(pub.event_type)) = pub.size)
           => LET rest == Subscribed(pub.event_type) \ pub.called IN
              /\ pub'.outcome # "error"
              /\ pub'.raised = pub.raised \cup {pub.current}
              /\ rest = {} => pub'.pc = "done" /\ pub'.outcome = "returned"
              /\ rest # {} => /\ pub'.pc = "call"
                              /\ pub'.current \in rest
                              /\ pub'.called = pub.called \cup {pub'.current}]_vars
    /\ [](pub.pc = "done" /\ ~pub.changed
             => pub.outcome = "returned" /\ pub.called = pub.snapshot)
    /\ [](pub.outcome = "error" => pub.changed)

\* A publish has returned after a callback raised and every callback of the
\* kind, three of them, was called.
C15_Witness ==
    /\ pub.pc = "done"
    /\ pub.outcome = "returned"
    /\ ~pub.changed
    /\ pub.raised # {}
    /\ pub.called = Callbacks
    /\ pub.called \ pub.raised # {}
    /\ pub.called = Subscribed(pub.event_type)

\* The arguments get_reports is called with.
OwnerFilters == {NULL} \cup {<<u>> : u \in ListUsers}

\* The rows get_reports(user_id, ...) selects from.
Owned(user_id) ==
    {j \in DOMAIN reports : user_id = NULL \/ reports[j].user_id = user_id[1]}

\* The rows of a set created after row j.
Newer(ids, j) ==
    {k \in ids : reports[k].created_at[1] > reports[j].created_at[1]}

\* C16: get_reports(user_id, skip, limit) returns the jobs (of user_id when
\* it is given, else all) in descending order of creation, without the first
\* skip of them and at most limit of them: its i-th item is the job that has
\* exactly skip + i - 1 newer jobs among those selected, and it has
\* min(limit, max(0, n - skip)) items for n selected jobs.
C16_ListNewestFirstPaged ==
    \A user_id \in OwnerFilters, skip \in 0..MaxListJobs, limit \in 0..MaxListJobs :
        LET listed == get_reports(user_id, skip, limit)
            n == Cardinality(Owned(user_id))
            left == IF n > skip THEN n - skip ELSE 0
        IN /\ Len(listed) = IF limit < left THEN limit ELSE left
           /\ \A i \in 1..Len(listed) :
                 /\ listed[i].id \in Owned(user_id)
                 /\ Cardinality(Newer(Owned(user_id), listed[i].id)) = skip + i - 1
                 /\ listed[i] = ListItem(listed[i].id, reports[listed[i].id])

\* Three jobs of owner 1 and one of owner 2 are stored, and the list of
\* owner 1 with limit 2 is the two newest of the three, newest first.
C16_Witness ==
    /\ Cardinality(Owned(<<1>>)) = 3
    /\ Cardinality(Owned(<<2>>)) = 1
    /\ LET listed == get_reports(<<1>>, 0, 2) IN
       /\ Len(listed) = 2
       /\ listed[1].created_at[1] > listed[2].created_at[1]
       /\ \E j \in Owned(<<1>>) :
             /\ reports[j].created_at[1] < listed[2].created_at[1]
             /\ \E k \in Owned(<<2>>) :
                   reports[k].created_at[1] > reports[j].created_at[1]

\* The ids get_reports lists when asked for every job.
ListedIds ==
    LET listed == get_reports(NULL, 0, Cardinality(DOMAIN reports)) IN
    {listed[i].id : i \in 1..Len(listed)}

\* C17: in the state delete_report(id) returns in, whatever the status of
\* the job was, get_report(id) finds nothing, get_reports does not list the
\* job, and every other job is stored and listed exactly as before; a job
\* that is not found is never found again.
C17_DeletedIsGone ==
    [][/\ \A j \in DOMAIN reports \ DOMAIN reports' :
             /\ get_report(j)' = NULL
             /\ j \notin ListedIds'
             /\ \A k \in DOMAIN reports \ {j} :
                   /\ get_report(k)' = get_report(k)
                   /\ k \in ListedIds'
       /\ \A j \in JobIds :
             (j < next_id /\ get_report(j) = NULL) => get_report(j)' = NULL]_vars

\* A completed job has been deleted: it is not found and not listed, and
\* another job is still stored.
C17_Witness ==
    \E j \in JobIds :
        /\ j < next_id
        /\ get_report(j) = NULL
        /\ j \notin ListedIds
        /\ ListedIds # {}
        /\ \E r \in Runs : /\ task[r].report_id = j
                            /\ task[r].pc = "done"
                            /\ task[r].outcome = "completed"

\* C18: no step changes the title, the video id or the owner of a stored
\* job, and its status, file_path, analysis_results and completed_at are
\* changed only by a step of a generate_report run on that job, never by
\* update_report.
C18_OnlyTheRunWrites ==
    [][\A j \in Kept :
          /\ reports'[j].title = reports[j].title
          /\ reports'[j].video_id = reports[j].video_id
          /\ reports'[j].user_id = reports[j].user_id
          /\ (\/ reports'[j].status # reports[j].status
              \/ reports'[j].file_path # reports[j].file_path
              \/ reports'[j].analysis_results # reports[j].analysis_results
              \/ reports'[j].completed_at # reports[j].completed_at)
             => /\ updates' = updates
                /\ \E r \in Runs : task'[r] # task[r] /\ task'[r].report_id = j]_vars

\* C19: a run in which a pipeline step failed (the metadata fetch failed
\* upstream, or the analysis or the renderer raised) ends, while the job is
\* stored, without an exception leaving generate_report and with the failure
\* recorded as the job's status failed; it changes nothing else of the
\* store, in particular not what create_report has returned.
C19_StepFailureOnlyRecorded ==
    [][\A r \in Runs :
          (/\ Ends(r)
           /\ task[r].report_id \in Kept
           /\ \/ task'[r].upstream = "error"
              \/ task'[r].cause \in {"analysis", "render"})
          => /\ task'[r].outcome = "failed"
             /\ reports'[task[r].report_id].status = "failed"
             /\ \A k \in Kept \ {task[r].report_id} : reports'[k] = reports[k]
             /\ next_id' = next_id]_vars

C21_FailedIsNotRunAgain ==
    [][/\ \A j \in JobIds :
             /\ calls'[j].metadata # calls[j].metadata
                   => /\ calls'[j].metadata = calls[j].metadata + 1
                      /\ \E r \in Runs : Enters(r) /\ task'[r].report_id = j
             /\ calls'[j].analysis # calls[j].analysis
                   => /\ calls'[j].analysis = calls[j].analysis + 1
                      /\ \E r \in Runs : /\ task[r].pc = "fetch"
                                         /\ task'[r].pc # "fetch"
                                         /\ task[r].report_id = j
             /\ calls'[j].render # calls[j].render
                   => /\ calls'[j].render = calls[j].render + 1
                      /\ \E r \in Runs : /\ task[r].pc = "analyze"
                                         /\ task'[r].pc = "render"
                                         /\ task[r].report_id = j
       /\ \A r \in Runs :
             (/\ Enters(r)
              /\ task'[r].report_id \in DOMAIN reports
              /\ reports[task'[r].report_id].status = "failed")
             => /\ task'[r].pc = "done"
                /\ calls' = calls
                /\ reports' = reports]_vars

\* The calls of a callback recorded in a log.
CallsOf(log, name) == {i \in 1..Len(log) : log[i][1] = name}

\* The error toast of a finished withErrorHandling call is as it should be:
\* shown once with a non-empty message when showErrorToast is on and
\* showError is supplied, not shown otherwise.
ToastAsConfigured ==
    LET toasts == CallsOf(wrap.log, "showError") IN
    IF wrap.options.showErrorToast /\ wrap.options.showError # "absent"
    THEN Cardinality(toasts) = 1 /\ \A i \in toasts : wrap.log[i][2] # ""
    ELSE toasts = {}

\* onSuccess is called in a finished call exactly when apiCall resolved (and
\* onSuccess is supplied), and then once.
OnSuccessIffResolved ==
    /\ CallsOf(wrap.log, "onSuccess") # {}
          <=> (wrap.settled = "resolved" /\ wrap.options.onSuccess # "absent")
    /\ Cardinality(CallsOf(wrap.log, "onSuccess")) <= 1

C23_StepsInOrder ==
    [][/\ \A r \in Runs :
             (Enters(r) /\ task'[r].pc # "done")
             => /\ task'[r].pc = "fetch"
                /\ reports'[task'[r].report_id].status = "processing"
                /\ calls' = Bump(task'[r].report_id, "metadata")
       /\ \A j \in JobIds :
             /\ calls'[j].metadata # calls[j].metadata
                   => \E r \in Runs : Enters(r) /\ task'[r].report_id = j
             /\ calls'[j].analysis # calls[j].analysis
                   => \E r \in Runs : /\ task[r].pc = "fetch"
                                      /\ task'[r].pc \in {"analyze", "done"}
                                      /\ task[r].report_id = j
                                      /\ calls[j].metadata >= calls'[j].analysis
             /\ calls'[j].render # calls[j].render
                   => \E r \in Runs : /\ task[r].pc = "analyze"
                                      /\ task'[r].pc = "render"
                                      /\ task[r].report_id = j
                                      /\ calls[j].analysis >= calls'[j].render
       /\ \A j \in Kept :
             /\ (reports'[j].status = "completed" /\ reports[j].status # "completed")
                   => \E r \in Runs : /\ task[r].pc = "render"
                                      /\ task'[r].pc = "done"
                                      /\ task[r].report_id = j
             /\ (reports'[j].status = "failed" /\ reports[j].status # "failed")
                   => \E r \in Runs : /\ Ends(r)
                                      /\ task[r].report_id = j
                                      /\ calls' = calls \/ task[r].pc = "fetch"]_vars

\* A run has taken a queued job through the three steps, each invoked once,
\* to completed.
C23_Witness ==
    \E r \in Runs :
        /\ task[r].pc = "done"
        /\ task[r].outcome = "completed"
        /\ task[r].report_id \in DOMAIN reports
        /\ calls[task[r].report_id] = [metadata |-> 1, analysis |-> 1, render |-> 1]
        /\ reports[task[r].report_id].status = "completed"
        /\ \A q \in Runs \ {r} : task[q].pc = "idle"

\* C24: a publish calls exactly the callbacks subscribed to its kind when it
\* was made, each once and all of them before it returns, and it returns:
\* while it runs it has called only such callbacks, and when it is over it
\* has returned normally having called every one of them.  (A callback
\* unsubscribed before the publish is then not called by it.)
C24_DeliversToSubscribers ==
    /\ pub.pc \in {"call", "done"} => pub.called \subseteq pub.snapshot
    /\ pub.pc = "done" => pub.outcome = "returned" /\ pub.called = pub.snapshot

\* A run on the job j has fetched, analysed and rendered, and its commit of
\* the completed row has raised.
TerminalCommitUnconfirmed(j) ==
    \E r \in Runs :
        /\ task[r].pc = "done"
        /\ task[r].report_id = j
        /\ task[r].cause = "store"
        /\ task[r].upstream # "none"

\* C25: a job whose run succeeded in its three steps and failed to commit
\* the completed row does not stay in processing for ever: it is eventually
\* failed or completed (or deleted).
C25_UnconfirmedIsNotStuck ==
    \A j \in JobIds :
        TerminalCommitUnconfirmed(j)
           ~> (j \in DOMAIN reports => reports[j].status # "processing")

\* The commit of the completed row that raises writes none of the pending
\* fields: the row keeps the file_path, analysis_results and completed_at it
\* had before the run tried to complete it.
UnconfirmedWritesNoResult ==
    [][\A r \in Runs :
          (task[r].pc = "render" /\ task'[r].pc = "done" /\ task'[r].cause = "store"
              /\ task[r].report_id \in DOMAIN reports)
          => LET j == task[r].report_id IN
             /\ reports'[j].file_path = reports[j].file_path
             /\ reports'[j].analysis_results = reports[j].analysis_results
             /\ reports'[j].completed_at = reports[j].completed_at]_vars

\* After an unconfirmed terminal commit a second run on the job has gone
\* through the three steps again and completed it.
RerunCompletes ==
    \E r, q \in Runs :
        /\ r # q
        /\ task[r].pc = "done" /\ task[r].cause = "store" /\ task[r].upstream # "none"
        /\ task[q].pc = "done" /\ task[q].outcome = "completed"
        /\ task[q].report_id = task[r].report_id
        /\ task[r].report_id \in DOMAIN reports
        /\ reports[task[r].report_id].status = "completed"
        /\ calls[task[r].report_id] = [metadata |-> 2, analysis |-> 2, render |-> 2]

\* C26: a step of a run touches the job of that run only: the set of
\* stored jobs, every other row, the step counts of every other job and the
\* frame of every other run are unchanged by it; and the row it leaves when
\* it ends is determined by its own job: completed with the file and the
\* analysis of its own video, or failed because one of its own steps raised.
C26_RunsDoNotInterfere ==
    [][\A r \in Runs :
          task'[r] # task[r]
          => LET j == task'[r].report_id IN
             /\ DOMAIN reports' = DOMAIN reports
             /\ \A k \in DOMAIN reports : k # j => reports'[k] = reports[k]
             /\ \A k \in DOMAIN calls : k # j => calls'[k] = calls[k]
             /\ \A q \in Runs : q # r => task'[q] = task[q]
             /\ (task'[r].pc = "done" /\ task'[r].outcome = "completed")
                   => reports'[j] =
                         CompletedWrite(reports[j], generate_pdf(j),
                             analyze_video(get_video_data(task[r].video_id,
                                                          task[r].upstream)),
                             now)
             /\ (task'[r].pc = "done" /\ task'[r].outcome = "failed")
                   => /\ reports'[j] = FailedWrite(reports[j])
                      /\ task'[r].cause \in {"analysis", "render"}]_vars

\* Two runs on two different jobs have both ended, one with its job
\* completed and the other with its job failed.
C26_Witness ==
    \E r, q \in Runs :
        /\ task[r].pc = "done" /\ task[q].pc = "done"
        /\ task[r].report_id # task[q].report_id
        /\ task[r].outcome = "completed" /\ task[q].outcome = "failed"
        /\ task[r].report_id \in DOMAIN reports
        /\ task[q].report_id \in DOMAIN reports
        /\ reports[task[r].report_id].status = "completed"
        /\ reports[task[q].report_id].status = "failed"
        /\ reports[task[q].report_id].file_path = NULL

\* C27: a call addressed to an id that is not stored reports not-found and
\* changes nothing: get_report, update_report and get_report_file_path
\* return None and delete_report returns False, leaving the table, the runs
\* and the step counts as they were; a generate_report entered on such an id
\* returns at once, having invoked no step and written nothing.
C27_MissingIdChangesNothing ==
    [][/\ \A j \in JobIds :
             (~Exists(j) /\ ret' # ret /\ ret'.id = j)
             => /\ ret'.value = IF ret'.op = "delete_report"
                                THEN <<"False">> ELSE <<"None">>
                /\ storeVars' = storeVars
       /\ \A r \in Runs :
             (Enters(r) /\ ~Exists(task'[r].report_id))
             => /\ task'[r].pc = "done"
                /\ task'[r].outcome = "not_found"
                /\ reports' = reports
                /\ calls' = calls
                /\ \A q \in Runs : q # r => task'[q] = task[q]]_vars

\* An update_report on an unknown id has returned None while a
\* generate_report on an unknown id has returned without a step, next to a
\* stored job that is as it was created.
C27_Witness ==
    /\ ret.op = "update_report"
    /\ ~Exists(ret.id)
    /\ ret.value = <<"None">>
    /\ \E r \in Runs :
          /\ task[r].pc = "done"
          /\ task[r].outcome = "not_found"
          /\ calls[task[r].report_id] = NoCalls
    /\ \E j \in DOMAIN reports : reports[j].status = "queued"

\* The job of run r was stored when the run began and has been deleted
\* since.
DeletedUnderRun(r) ==
    /\ task[r].pc # "idle"
    /\ task[r].outcome # "not_found"
    /\ ~Exists(task[r].report_id)

\* C28: once the job of a run has been deleted it stays deleted whatever
\* the run does next: it is not found after any step, the steps the run
\* still takes write no row at all (neither its own nor another job's), and
\* the run ends, by the exception of the commit that finds no row.
C28_DeleteWinsOverRun ==
    [][\A r \in Runs :
          DeletedUnderRun(r)
          => /\ get_report(task[r].report_id)' = NULL
             /\ task'[r] # task[r] => reports' = reports
             /\ (Active(r) /\ task'[r].pc = "done") => task'[r].outcome = "error"]_vars

\* A job was deleted after its run had started the analysis; the run went
\* on to the renderer and has ended, the job is not stored, and the other
\* job is still there, completed by its own run.
C28_Witness ==
    \E r, q \in Runs :
        /\ r # q
        /\ DeletedUnderRun(r)
        /\ task[r].pc = "done"
        /\ task[r].outcome = "error"
        /\ calls[task[r].report_id].render = 1
        /\ task[q].pc = "done" /\ task[q].outcome = "completed"
        /\ Exists(task[q].report_id)
        /\ reports[task[q].report_id].status = "completed"

\* Run r has got the answer of get_video_data.
PastFetch(r) ==
    task[r].pc \in {"analyze", "render", "done"} /\ task[r].upstream # "none"

C30_ExactlyOneCallback ==
    /\ Len(ctl.log) <= 1
    /\ ctl.pc = "done" => Len(ctl.log) = 1

====
